---- MODULE Spec2Model ----
(***************************************************************************)
(* Model of the packet-filtering engine of pkg/tcpip/iptables:             *)
(* IPTables.Check, IPTables.checkTable and IPTables.checkRule, together    *)
(* with the construction helpers DefaultTables and EmptyFilterTable.       *)
(*                                                                         *)
(* A Check call is a frame (pc, hook, pkt, tblIdx, ruleIdx, mIdx, result,  *)
(* log).  The log is a history of the calls the frame made (tables         *)
(* consulted, rules evaluated, matchers and targets invoked) and of the    *)
(* verdicts it got back.                                                   *)
(***************************************************************************)
EXTENDS Integers, Sequences, FiniteSets, TLC

VARIABLES engine, calls

vars == <<engine, calls>>

(***************************************************************************)
(* Bounds of the model.                                                    *)
(***************************************************************************)
MaxRules == 2
MaxMatchers == 2
MaxTables == 2
NumCallers == 2

(***************************************************************************)
(* Program constants and types.                                            *)
(***************************************************************************)
TablenameNat == "nat"
TablenameMangle == "mangle"
TablenameFilter == "filter"

HookUnset == -1

Prerouting == "Prerouting"
Input == "Input"
Forward == "Forward"
Output == "Output"
Postrouting == "Postrouting"

Hook == {Prerouting, Input, Forward, Output, Postrouting}

RuleAccept == "RuleAccept"
RuleDrop == "RuleDrop"
RuleContinue == "RuleContinue"
RuleReturn == "RuleReturn"
RuleUnknown == "RuleUnknown"

TableAccept == "TableAccept"
TableDrop == "TableDrop"

\* Transport protocol numbers a packet's network header may carry.
TCPProtocolNumber == 6
UDPProtocolNumber == 17
\* A tcpip.PacketBuffer whose network header is set: of the header only the
\* protocol field is read.
PacketBuffer(protocol) == [NetworkHeader |-> [Protocol |-> protocol]]

Packets == {PacketBuffer(TCPProtocolNumber), PacketBuffer(UDPProtocolNumber)}

\* header.IPv4(pkt.NetworkHeader).TransportProtocol()
TransportProtocol(pkt) == pkt.NetworkHeader.Protocol

(***************************************************************************)
(* Targets and matchers: the two capability interfaces.                    *)
(***************************************************************************)
AcceptTarget == "AcceptTarget"
DropTarget == "DropTarget"
ErrorTarget == "ErrorTarget"
ContinueTarget == "ContinueTarget"
ReturnTarget == "ReturnTarget"
UnknownTarget == "UnknownTarget"

Targets == {AcceptTarget, DropTarget, ErrorTarget, ContinueTarget, ReturnTarget, UnknownTarget}

\* Targets whose error target drops the packet instead of aborting.
TargetAction_ErrorDrops(target, pkt) ==
    CASE target = AcceptTarget -> RuleAccept
      [] target = DropTarget -> RuleDrop
      [] target = ErrorTarget -> RuleDrop
      [] target = ContinueTarget -> RuleContinue
      [] target = ReturnTarget -> RuleReturn
      [] OTHER -> RuleUnknown

\* Target.Action(pkt): the verdict the target produces, "panic" when the
\* target aborts the program.
TargetAction(target, pkt) ==
    CASE target = AcceptTarget -> RuleAccept
      [] target = DropTarget -> RuleDrop
      [] target = ErrorTarget -> "panic"
      [] target = ContinueTarget -> RuleContinue
      [] target = ReturnTarget -> RuleReturn
      [] OTHER -> RuleUnknown

\* A matcher is the pair its Match method reports.
Matcher(matches, hotdrop) == [matches |-> matches, hotdrop |-> hotdrop]

MatcherMatch(matcher, hook, pkt) == matcher

Matchers == {Matcher(m, h) : m \in BOOLEAN, h \in BOOLEAN}

(***************************************************************************)
(* Rules, tables, engine state.                                            *)
(***************************************************************************)
Rule(protocol, matchers, target) ==
    [Filter |-> [Protocol |-> protocol], Matchers |-> matchers, Target |-> target]

Table(rules, builtinChains, underflows) ==
    [Rules |-> rules, BuiltinChains |-> builtinChains,
     Underflows |-> underflows, UserChains |-> <<>>]

IPTables(tables, priorities) == [Tables |-> tables, Priorities |-> priorities]

\* The zero value of Table: what a Go map lookup gives for a missing name.
ZeroTable == Table(<<>>, <<>>, <<>>)

\* A lookup that yields HookUnset for a hook the map has no entry for.
MapGetInt_MissingIsUnset(m, k) == IF k \in DOMAIN m THEN m[k] ELSE HookUnset

\* m[k] on a Go map[Hook]int: the zero value when the key is missing.
MapGetInt(m, k) == IF k \in DOMAIN m THEN m[k] ELSE 0

\* A lookup that yields the filter table for a hook with no priority list.
MapGetSlice_MissingIsFilter(m, k) == IF k \in DOMAIN m THEN m[k] ELSE <<TablenameFilter>>

\* m[k] on a Go map[Hook][]string: nil, an empty slice, when missing.
MapGetSlice(m, k) == IF k \in DOMAIN m THEN m[k] ELSE <<>>

\* m[k] on a Go map[string]Table.
MapGetTable(m, k) == IF k \in DOMAIN m THEN m[k] ELSE ZeroTable

\* The default configuration with some of its indices and the priority list
\* of Input set differently.
DefaultTablesVariant(natInputUnderflow, mangleOutputUnderflow, inputPriorities) ==
    IPTables(
        [nat |-> Table(
            << Rule(0, <<>>, AcceptTarget),
               Rule(0, <<>>, AcceptTarget),
               Rule(0, <<>>, AcceptTarget),
               Rule(0, <<>>, AcceptTarget),
               Rule(0, <<>>, ErrorTarget) >>,
            [Prerouting |-> 0, Input |-> 1, Output |-> 2, Postrouting |-> 3],
            [Prerouting |-> 0, Input |-> natInputUnderflow, Output |-> 2, Postrouting |-> 3]),
         mangle |-> Table(
            << Rule(0, <<>>, AcceptTarget),
               Rule(0, <<>>, AcceptTarget),
               Rule(0, <<>>, ErrorTarget) >>,
            [Prerouting |-> 0, Output |-> 1],
            [Prerouting |-> 0, Output |-> mangleOutputUnderflow]),
         filter |-> Table(
            << Rule(0, <<>>, AcceptTarget),
               Rule(0, <<>>, AcceptTarget),
               Rule(0, <<>>, AcceptTarget),
               Rule(0, <<>>, ErrorTarget) >>,
            [Input |-> 0, Forward |-> 1, Output |-> 2],
            [Input |-> 0, Forward |-> 1, Output |-> 2])],
        [Input |-> inputPriorities,
         Prerouting |-> <<TablenameMangle, TablenameNat>>,
         Output |-> <<TablenameMangle, TablenameNat, TablenameFilter>>])

\* A default configuration that consults filter before nat for Input.
DefaultTables_InputFilterFirst ==
    DefaultTablesVariant(1, 1, <<TablenameFilter, TablenameNat>>)

\* A default configuration whose mangle underflow for Output is the error rule.
DefaultTables_MangleUnderflowAtError ==
    DefaultTablesVariant(1, 2, <<TablenameNat, TablenameFilter>>)

\* A default configuration that lists mangle for Input.
DefaultTables_InputListsMangle ==
    DefaultTablesVariant(1, 1, <<TablenameMangle, TablenameNat, TablenameFilter>>)

\* A default configuration whose nat underflow for Input is the error rule.
DefaultTables_NatUnderflowAtError ==
    DefaultTablesVariant(4, 1, <<TablenameNat, TablenameFilter>>)

\* A default configuration whose nat table enters Input at rule 0.
DefaultTables_NatInputAtZero ==
    [DefaultTablesVariant(1, 1, <<TablenameNat, TablenameFilter>>)
        EXCEPT !.Tables.nat.BuiltinChains.Input = 0]

\* A default configuration whose filter table enters Input at its last rule.
DefaultTables_FilterInputAtError ==
    IPTables(
        [nat |-> Table(
            << Rule(0, <<>>, AcceptTarget),
               Rule(0, <<>>, AcceptTarget),
               Rule(0, <<>>, AcceptTarget),
               Rule(0, <<>>, AcceptTarget),
               Rule(0, <<>>, ErrorTarget) >>,
            [Prerouting |-> 0, Input |-> 1, Output |-> 2, Postrouting |-> 3],
            [Prerouting |-> 0, Input |-> 1, Output |-> 2, Postrouting |-> 3]),
         mangle |-> Table(
            << Rule(0, <<>>, AcceptTarget),
               Rule(0, <<>>, AcceptTarget),
               Rule(0, <<>>, ErrorTarget) >>,
            [Prerouting |-> 0, Output |-> 1],
            [Prerouting |-> 0, Output |-> 1]),
         filter |-> Table(
            << Rule(0, <<>>, AcceptTarget),
               Rule(0, <<>>, AcceptTarget),
               Rule(0, <<>>, AcceptTarget),
               Rule(0, <<>>, ErrorTarget) >>,
            [Input |-> 3, Forward |-> 1, Output |-> 2],
            [Input |-> 0, Forward |-> 1, Output |-> 2])],
        [Input |-> <<TablenameNat, TablenameFilter>>,
         Prerouting |-> <<TablenameMangle, TablenameNat>>,
         Output |-> <<TablenameMangle, TablenameNat, TablenameFilter>>])

DefaultTables ==
    IPTables(
        [nat |-> Table(
            << Rule(0, <<>>, AcceptTarget),
               Rule(0, <<>>, AcceptTarget),
               Rule(0, <<>>, AcceptTarget),
               Rule(0, <<>>, AcceptTarget),
               Rule(0, <<>>, ErrorTarget) >>,
            [Prerouting |-> 0, Input |-> 1, Output |-> 2, Postrouting |-> 3],
            [Prerouting |-> 0, Input |-> 1, Output |-> 2, Postrouting |-> 3]),
         mangle |-> Table(
            << Rule(0, <<>>, AcceptTarget),
               Rule(0, <<>>, AcceptTarget),
               Rule(0, <<>>, ErrorTarget) >>,
            [Prerouting |-> 0, Output |-> 1],
            [Prerouting |-> 0, Output |-> 1]),
         filter |-> Table(
            << Rule(0, <<>>, AcceptTarget),
               Rule(0, <<>>, AcceptTarget),
               Rule(0, <<>>, AcceptTarget),
               Rule(0, <<>>, ErrorTarget) >>,
            [Input |-> 0, Forward |-> 1, Output |-> 2],
            [Input |-> 0, Forward |-> 1, Output |-> 2])],
        [Input |-> <<TablenameNat, TablenameFilter>>,
         Prerouting |-> <<TablenameMangle, TablenameNat>>,
         Output |-> <<TablenameMangle, TablenameNat, TablenameFilter>>])

\* An empty filter table that maps all five hooks to HookUnset.
EmptyFilterTable_AllHooksUnset ==
    Table(<<>>,
          [h \in Hook |-> HookUnset],
          [h \in Hook |-> HookUnset])

EmptyFilterTable ==
    Table(<<>>,
          [Input |-> HookUnset, Forward |-> HookUnset, Output |-> HookUnset],
          [Input |-> HookUnset, Forward |-> HookUnset, Output |-> HookUnset])


\* The configuration stack bring-up installs when no filter is wanted: the
\* empty filter table, consulted by no hook.
EmptyFilterConfig == IPTables([filter |-> EmptyFilterTable], <<>>)

(***************************************************************************)
(* Frames of Check calls.  it is the receiver of the call, the IPTables    *)
(* value the call reads.  overlapped is a history flag: some other Check   *)
(* call was in flight while this one was.                                  *)
(***************************************************************************)
NoTables == IPTables(<<>>, <<>>)

IdleFrame ==
    [pc |-> "idle", it |-> NoTables,
     hook |-> Input, pkt |-> PacketBuffer(TCPProtocolNumber),
     tblIdx |-> 0,
     ruleIdx |-> 0, mIdx |-> 0, result |-> FALSE, log |-> <<>>,
     overlapped |-> FALSE]

\* One entry of a frame's history.
Ev(kind, pos, rule, m, v) ==
    [kind |-> kind, pos |-> pos, rule |-> rule, m |-> m, v |-> v]

Record(f, e) == [f EXCEPT !.log = Append(@, e)]

\* panic(...), or a run-time panic such as an index out of range.
Panic(f) == [f EXCEPT !.pc = "panic"]

\* it.Priorities[hook]
PrioritiesOf(hook) == MapGetSlice(engine.Priorities, hook)

\* it.Priorities[hook], read through the receiver of the call.
FramePriorities(f) == MapGetSlice(f.it.Priorities, f.hook)

\* Check looking the table up in the engine state installed now instead of
\* in its receiver.
TableOf_ReadsInstalled(f) ==
    MapGetTable(engine.Tables, FramePriorities(f)[f.tblIdx + 1])

\* table := it.Tables[tablename], for the table the frame is consulting.
TableOf(f) == MapGetTable(f.it.Tables, FramePriorities(f)[f.tblIdx + 1])

\* table.Rules[ruleIdx], defined for 0 <= ruleIdx < len(table.Rules).
RuleAt(table, ruleIdx) == table.Rules[ruleIdx + 1]

\* Check with a TableDrop that moves on to the next table.
OnTableVerdict_DropContinues(f, verdict) ==
    LET g == Record(f, Ev("tverdict", f.tblIdx, 0, 0, verdict))
    IN  CASE verdict \in {TableAccept, TableDrop} ->
                [g EXCEPT !.pc = "Check", !.tblIdx = @ + 1, !.ruleIdx = 0, !.mIdx = 0]
          [] OTHER -> Panic(g)

\* The switch of Check on the verdict of checkTable.
OnTableVerdict(f, verdict) ==
    LET g == Record(f, Ev("tverdict", f.tblIdx, 0, 0, verdict))
    IN  CASE verdict = TableAccept ->
                [g EXCEPT !.pc = "Check", !.tblIdx = @ + 1, !.ruleIdx = 0, !.mIdx = 0]
          [] verdict = TableDrop ->
                [g EXCEPT !.pc = "done", !.result = FALSE]
          [] OTHER -> Panic(g)

\* checkTable evaluating the same rule again after a RuleContinue.
OnRuleVerdict_ContinueStays(f, verdict) ==
    LET g == Record(f, Ev("rverdict", f.tblIdx, f.ruleIdx, 0, verdict))
    IN  CASE verdict = RuleAccept -> OnTableVerdict(g, TableAccept)
          [] verdict = RuleDrop -> OnTableVerdict(g, TableDrop)
          [] verdict = RuleContinue -> [g EXCEPT !.pc = "checkTable", !.mIdx = 0]
          [] verdict = RuleReturn -> [g EXCEPT !.pc = "underflow", !.mIdx = 0]
          [] OTHER -> Panic(g)

\* checkTable skipping a rule after a RuleContinue.
OnRuleVerdict_ContinueSkips(f, verdict) ==
    LET g == Record(f, Ev("rverdict", f.tblIdx, f.ruleIdx, 0, verdict))
    IN  CASE verdict = RuleAccept -> OnTableVerdict(g, TableAccept)
          [] verdict = RuleDrop -> OnTableVerdict(g, TableDrop)
          [] verdict = RuleContinue ->
                [g EXCEPT !.pc = "checkTable", !.ruleIdx = @ + 2, !.mIdx = 0]
          [] verdict = RuleReturn -> [g EXCEPT !.pc = "underflow", !.mIdx = 0]
          [] OTHER -> Panic(g)

\* checkTable with a RuleAccept that goes on to the next rule.
OnRuleVerdict_AcceptContinues(f, verdict) ==
    LET g == Record(f, Ev("rverdict", f.tblIdx, f.ruleIdx, 0, verdict))
    IN  CASE verdict = RuleDrop -> OnTableVerdict(g, TableDrop)
          [] verdict \in {RuleAccept, RuleContinue} ->
                [g EXCEPT !.pc = "checkTable", !.ruleIdx = @ + 1, !.mIdx = 0]
          [] verdict = RuleReturn -> [g EXCEPT !.pc = "underflow", !.mIdx = 0]
          [] OTHER -> Panic(g)

\* The switch of checkTable on the verdict of checkRule.
OnRuleVerdict(f, verdict) ==
    LET g == Record(f, Ev("rverdict", f.tblIdx, f.ruleIdx, 0, verdict))
    IN  CASE verdict = RuleAccept -> OnTableVerdict(g, TableAccept)
          [] verdict = RuleDrop -> OnTableVerdict(g, TableDrop)
          [] verdict = RuleContinue ->
                [g EXCEPT !.pc = "checkTable", !.ruleIdx = @ + 1, !.mIdx = 0]
          [] verdict = RuleReturn -> [g EXCEPT !.pc = "underflow", !.mIdx = 0]
          [] OTHER -> Panic(g)

\* Check with a loop index shared by the calls in flight instead of a local.
CheckLoop_SharedIndex(f) ==
    LET idx == CHOOSE k \in {calls[c].tblIdx : c \in {d \in DOMAIN calls : calls[d].pc = "Check"}} :
                    \A c \in {d \in DOMAIN calls : calls[d].pc = "Check"} : calls[c].tblIdx <= k
        g == [f EXCEPT !.tblIdx = idx]
    IN  IF g.tblIdx < Len(FramePriorities(g))
        THEN [Record(g, Ev("table", g.tblIdx, 0, 0, FramePriorities(g)[g.tblIdx + 1]))
                EXCEPT !.pc = "checkTable",
                       !.ruleIdx = MapGetInt(TableOf(g).BuiltinChains, g.hook)]
        ELSE [g EXCEPT !.pc = "done", !.result = TRUE]

\* Check returning false when no table is left.
CheckLoop_ReturnsFalse(f) ==
    IF f.tblIdx < Len(FramePriorities(f))
    THEN [Record(f, Ev("table", f.tblIdx, 0, 0, FramePriorities(f)[f.tblIdx + 1]))
            EXCEPT !.pc = "checkTable",
                   !.ruleIdx = MapGetInt(TableOf(f).BuiltinChains, f.hook)]
    ELSE [f EXCEPT !.pc = "done", !.result = FALSE]

\* The loop of Check: the next table of it.Priorities[hook], or return true.
CheckLoop(f) ==
    IF f.tblIdx < Len(FramePriorities(f))
    THEN [Record(f, Ev("table", f.tblIdx, 0, 0, FramePriorities(f)[f.tblIdx + 1]))
            EXCEPT !.pc = "checkTable",
                   !.ruleIdx = MapGetInt(TableOf(f).BuiltinChains, f.hook)]
    ELSE [f EXCEPT !.pc = "done", !.result = TRUE]

\* checkRule with a header filter that ignores the packet's protocol.
CheckRuleFilter_NoFilter(f) ==
    IF f.ruleIdx < 0
    THEN Panic(f)
    ELSE [Record(f, Ev("rule", f.tblIdx, f.ruleIdx, 0, ""))
            EXCEPT !.pc = "checkRule", !.mIdx = 0]

\* The start of checkRule: index the rule, then the IP header filter.
CheckRuleFilter(f) ==
    IF f.ruleIdx < 0
    THEN Panic(f)
    ELSE LET rule == RuleAt(TableOf(f), f.ruleIdx)
             g == Record(f, Ev("rule", f.tblIdx, f.ruleIdx, 0, ""))
         IN  IF /\ rule.Filter.Protocol # 0
                /\ rule.Filter.Protocol # TransportProtocol(f.pkt)
             THEN OnRuleVerdict(g, RuleContinue)
             ELSE [g EXCEPT !.pc = "checkRule", !.mIdx = 0]

\* checkTable confining the walk to the chain of the hook: it stops past
\* the rule at table.Underflows[hook].
CheckTableLoop_StopsAtUnderflow(f) ==
    IF /\ f.ruleIdx < Len(TableOf(f).Rules)
       /\ \/ MapGetInt(TableOf(f).Underflows, f.hook) < 0
          \/ f.ruleIdx <= MapGetInt(TableOf(f).Underflows, f.hook)
    THEN CheckRuleFilter(f)
    ELSE OnTableVerdict(f, TableDrop)

\* checkTable calling the underflow when the rules are exhausted.
CheckTableLoop_ExhaustionCallsUnderflow(f) ==
    IF f.ruleIdx < Len(TableOf(f).Rules)
    THEN CheckRuleFilter(f)
    ELSE [f EXCEPT !.pc = "underflow", !.mIdx = 0]

\* checkTable defaulting to TableAccept when the rules are exhausted.
CheckTableLoop_DefaultAccept(f) ==
    IF f.ruleIdx < Len(TableOf(f).Rules)
    THEN CheckRuleFilter(f)
    ELSE OnTableVerdict(f, TableAccept)

\* checkTable with a loop that also stops at a negative index.
CheckTableLoop_UnsetDrops(f) ==
    IF f.ruleIdx >= 0 /\ f.ruleIdx < Len(TableOf(f).Rules)
    THEN CheckRuleFilter(f)
    ELSE OnTableVerdict(f, TableDrop)

\* The loop of checkTable: evaluate the rule at ruleIdx, or default to
\* TableDrop when the rules are exhausted.
CheckTableLoop(f) ==
    IF f.ruleIdx < Len(TableOf(f).Rules)
    THEN CheckRuleFilter(f)
    ELSE OnTableVerdict(f, TableDrop)

\* checkRule going on to the next matcher after one that does not match.
CheckRuleMatcher_NoShortCircuit(f) ==
    LET rule == RuleAt(TableOf(f), f.ruleIdx)
        r == MatcherMatch(rule.Matchers[f.mIdx + 1], f.hook, f.pkt)
        g == Record(f, Ev("match", f.tblIdx, f.ruleIdx, f.mIdx, ""))
    IN  IF r.hotdrop
        THEN OnRuleVerdict(g, RuleDrop)
        ELSE [g EXCEPT !.mIdx = @ + 1]

\* checkRule testing matches before hotdrop.
CheckRuleMatcher_MatchesFirst(f) ==
    LET rule == RuleAt(TableOf(f), f.ruleIdx)
        r == MatcherMatch(rule.Matchers[f.mIdx + 1], f.hook, f.pkt)
        g == Record(f, Ev("match", f.tblIdx, f.ruleIdx, f.mIdx, ""))
    IN  IF ~r.matches
        THEN OnRuleVerdict(g, RuleContinue)
        ELSE IF r.hotdrop
             THEN OnRuleVerdict(g, RuleDrop)
             ELSE [g EXCEPT !.mIdx = @ + 1]

\* The loop of checkRule over rule.Matchers: one call of matcher.Match.
CheckRuleMatcher(f) ==
    LET rule == RuleAt(TableOf(f), f.ruleIdx)
        r == MatcherMatch(rule.Matchers[f.mIdx + 1], f.hook, f.pkt)
        g == Record(f, Ev("match", f.tblIdx, f.ruleIdx, f.mIdx, ""))
    IN  IF r.hotdrop
        THEN OnRuleVerdict(g, RuleDrop)
        ELSE IF ~r.matches
             THEN OnRuleVerdict(g, RuleContinue)
             ELSE [g EXCEPT !.mIdx = @ + 1]

\* checkRule turning a target's Return into Continue.
CheckRuleTarget_ReturnAsContinue(f) ==
    LET rule == RuleAt(TableOf(f), f.ruleIdx)
        verdict == TargetAction(rule.Target, f.pkt)
        g == Record(f, Ev("target", f.tblIdx, f.ruleIdx, 0, verdict))
    IN  IF verdict = "panic"
        THEN Panic(g)
        ELSE OnRuleVerdict(g, IF verdict = RuleReturn THEN RuleContinue ELSE verdict)

\* The end of checkRule: all the matchers matched, run the target.
CheckRuleTarget(f) ==
    LET rule == RuleAt(TableOf(f), f.ruleIdx)
        verdict == TargetAction(rule.Target, f.pkt)
        g == Record(f, Ev("target", f.tblIdx, f.ruleIdx, 0, verdict))
    IN  IF verdict = "panic" THEN Panic(g) ELSE OnRuleVerdict(g, verdict)

\* checkTable handing an undecided underflow verdict up to Check.
CheckTableUnderflow_PassesVerdict(f) ==
    LET table == TableOf(f)
        underflowIdx == MapGetInt(table.Underflows, f.hook)
    IN  IF underflowIdx < 0 \/ underflowIdx >= Len(table.Rules)
        THEN Panic(f)
        ELSE LET v == TargetAction(RuleAt(table, underflowIdx).Target, f.pkt)
                 g == Record(f, Ev("underflow", f.tblIdx, underflowIdx, 0, v))
             IN  CASE v = RuleAccept -> OnTableVerdict(g, TableAccept)
                   [] v = RuleDrop -> OnTableVerdict(g, TableDrop)
                   [] OTHER -> OnTableVerdict(g, v)

\* checkTable consulting the matchers of the underflow rule before its target.
CheckTableUnderflow_ConsultsMatchers(f) ==
    LET table == TableOf(f)
        underflowIdx == MapGetInt(table.Underflows, f.hook)
    IN  IF underflowIdx < 0 \/ underflowIdx >= Len(table.Rules)
        THEN Panic(f)
        ELSE LET rule == RuleAt(table, underflowIdx)
                 v == TargetAction(rule.Target, f.pkt)
                 g == Record(f, Ev("underflow", f.tblIdx, underflowIdx, 0, v))
             IN  IF \E k \in 1..Len(rule.Matchers) :
                        ~MatcherMatch(rule.Matchers[k], f.hook, f.pkt).matches
                 THEN OnTableVerdict(
                        Record(f, Ev("match", f.tblIdx, underflowIdx, 0, "")), TableDrop)
                 ELSE CASE v = RuleAccept -> OnTableVerdict(g, TableAccept)
                        [] v = RuleDrop -> OnTableVerdict(g, TableDrop)
                        [] OTHER -> Panic(g)

\* checkTable dropping the packet when the underflow target does not decide.
CheckTableUnderflow_UndecidedDrops(f) ==
    LET table == TableOf(f)
        underflowIdx == MapGetInt(table.Underflows, f.hook)
    IN  IF underflowIdx < 0 \/ underflowIdx >= Len(table.Rules)
        THEN Panic(f)
        ELSE LET v == TargetAction(RuleAt(table, underflowIdx).Target, f.pkt)
                 g == Record(f, Ev("underflow", f.tblIdx, underflowIdx, 0, v))
             IN  CASE v = RuleAccept -> OnTableVerdict(g, TableAccept)
                   [] v = "panic" -> Panic(g)
                   [] OTHER -> OnTableVerdict(g, TableDrop)

\* The RuleReturn case of checkTable: call the underflow rule's target.
CheckTableUnderflow(f) ==
    LET table == TableOf(f)
        underflowIdx == MapGetInt(table.Underflows, f.hook)
    IN  IF underflowIdx < 0 \/ underflowIdx >= Len(table.Rules)
        THEN Panic(f)
        ELSE LET v == TargetAction(RuleAt(table, underflowIdx).Target, f.pkt)
                 g == Record(f, Ev("underflow", f.tblIdx, underflowIdx, 0, v))
             IN  CASE v = RuleAccept -> OnTableVerdict(g, TableAccept)
                   [] v = RuleDrop -> OnTableVerdict(g, TableDrop)
                   [] OTHER -> Panic(g)

(***************************************************************************)
(* Actions.  A panic ends the program: no frame steps after it.            *)
(***************************************************************************)
Aborted == \E c \in DOMAIN calls : calls[c].pc = "panic"

InFlight(f) == f.pc \notin {"idle", "done"}

\* A call that clears the priority lists of the engine when it returns.
Step_ClearsPriorities(c, f) ==
    /\ ~Aborted
    /\ LET after == [calls EXCEPT ![c] = f]
       IN  calls' = [x \in DOMAIN calls |->
                        IF /\ after[x].pc # "idle"
                           /\ InFlight(calls[x]) \/ InFlight(after[x])
                           /\ \E y \in DOMAIN calls \ {x} :
                                InFlight(calls[y]) \/ InFlight(after[y])
                        THEN [after[x] EXCEPT !.overlapped = TRUE]
                        ELSE after[x]]
    /\ engine' = IF f.pc = "done"
                 THEN [engine EXCEPT !.Priorities = [h \in DOMAIN @ |-> <<>>]]
                 ELSE engine

Step(c, f) ==
    /\ ~Aborted
    /\ LET after == [calls EXCEPT ![c] = f]
       IN  calls' = [x \in DOMAIN calls |->
                        IF /\ after[x].pc # "idle"
                           /\ InFlight(calls[x]) \/ InFlight(after[x])
                           /\ \E y \in DOMAIN calls \ {x} :
                                InFlight(calls[y]) \/ InFlight(after[y])
                        THEN [after[x] EXCEPT !.overlapped = TRUE]
                        ELSE after[x]]
    /\ UNCHANGED engine

\* The network stack calls it.Check(hook, pkt).
Check(c, hook, pkt) ==
    /\ calls[c].pc = "idle"
    /\ Step(c, [IdleFrame EXCEPT !.pc = "Check", !.it = engine,
                                 !.hook = hook, !.pkt = pkt])

CheckNextTable(c) ==
    /\ calls[c].pc = "Check"
    /\ Step(c, CheckLoop(calls[c]))

checkTable(c) ==
    /\ calls[c].pc = "checkTable"
    /\ Step(c, CheckTableLoop(calls[c]))

checkRuleMatch(c) ==
    /\ calls[c].pc = "checkRule"
    /\ calls[c].mIdx < Len(RuleAt(TableOf(calls[c]), calls[c].ruleIdx).Matchers)
    /\ Step(c, CheckRuleMatcher(calls[c]))

checkRuleAction(c) ==
    /\ calls[c].pc = "checkRule"
    /\ calls[c].mIdx >= Len(RuleAt(TableOf(calls[c]), calls[c].ruleIdx).Matchers)
    /\ Step(c, CheckRuleTarget(calls[c]))

checkTableUnderflow(c) ==
    /\ calls[c].pc = "underflow"
    /\ Step(c, CheckTableUnderflow(calls[c]))

\* Check has returned; the caller takes the result.
CheckReturn(c) ==
    /\ calls[c].pc = "done"
    /\ Step(c, IdleFrame)

(***************************************************************************)
(* The engine states Check is run against: the two configurations the      *)
(* construction helpers build, and bounded families of IPTables values     *)
(* (the fields of IPTables, Table and Rule are set freely by the code      *)
(* that installs a configuration).                                         *)
(***************************************************************************)
SeqsUpTo(S, n) == UNION {[1..k -> S] : k \in 0..n}

TableNames == {TablenameNat, TablenameMangle, TablenameFilter}

UnconditionalRules == {Rule(0, <<>>, t) : t \in Targets}

RulePool ==
    UnconditionalRules
        \cup {Rule(TCPProtocolNumber, <<>>, AcceptTarget),
              Rule(0, <<Matcher(FALSE, FALSE)>>, AcceptTarget)}

MatcherSeqs == SeqsUpTo(Matchers, MaxMatchers) \ {<<>>}

\* Tables wired to Input only, over every rule sequence of the pool and
\* every entry and underflow index.
IndexTables ==
    {Table(rs, [Input |-> b], [Input |-> u]) :
        rs \in SeqsUpTo(RulePool, MaxRules),
        b \in {HookUnset} \cup (0..MaxRules),
        u \in {HookUnset} \cup (0..(MaxRules - 1))}

IndexConfigs ==
    {IPTables([filter |-> t], [Input |-> <<TablenameFilter>>]) : t \in IndexTables}

\* Tables whose first rule has a header filter, matchers and a target.
MatcherTables ==
    {Table(<<Rule(p, ms, t)>> \o tail, [Input |-> 0], [Input |-> 0]) :
        p \in {0, TCPProtocolNumber}, ms \in MatcherSeqs,
        t \in {AcceptTarget, DropTarget},
        tail \in {<<>>, <<Rule(0, <<>>, AcceptTarget)>>, <<Rule(0, <<>>, DropTarget)>>}}

MatcherConfigs ==
    {IPTables([filter |-> t], [Input |-> <<TablenameFilter>>]) : t \in MatcherTables}

\* Several tables per hook: every priority list over the table names and a
\* name that is in no table map.
SimpleTables ==
    {Table(rs, [Input |-> b], [Input |-> 0]) :
        rs \in {<<Rule(0, <<>>, AcceptTarget)>>, <<Rule(0, <<>>, DropTarget)>>,
                <<Rule(0, <<>>, ReturnTarget)>>, <<>>},
        b \in {0, HookUnset}}

PriorityConfigs ==
    {IPTables([nat |-> n, filter |-> f, mangle |-> EmptyFilterTable],
              [Input |-> prio, Forward |-> <<>>]) :
        n \in SimpleTables, f \in SimpleTables,
        prio \in SeqsUpTo(TableNames \cup {"raw"}, MaxTables)}

\* The default configuration with one rule replaced and one priority list
\* replaced.
DefaultRuleSlots ==
    {<<name, i>> : name \in TableNames, i \in 1..5} \ 
        ({<<TablenameMangle, i>> : i \in 4..5} \cup {<<TablenameFilter, 5>>})

PerturbedConfigs ==
    {[DefaultTables EXCEPT !.Tables[slot[1]].Rules[slot[2]] = r,
                           !.Priorities = prio] :
        slot \in DefaultRuleSlots, r \in RulePool,
        prio \in {DefaultTables.Priorities}
                    \cup {[DefaultTables.Priorities EXCEPT ![Input] = <<name>>] :
                            name \in TableNames}}

Configs ==
    {DefaultTables, EmptyFilterConfig,
     IPTables([filter |-> EmptyFilterTable], [Input |-> <<>>]),
     IPTables([filter |-> EmptyFilterTable], [Input |-> <<TablenameFilter>>])}
        \cup IndexConfigs \cup MatcherConfigs \cup PriorityConfigs
        \cup PerturbedConfigs

\* The configurations concurrent calls are run against.
ConcTables ==
    IPTables(
        [nat |-> Table(
            << Rule(TCPProtocolNumber, <<>>, DropTarget),
               Rule(0, <<Matcher(TRUE, FALSE)>>, AcceptTarget) >>,
            [Input |-> 0], [Input |-> 1]),
         filter |-> Table(
            << Rule(0, <<Matcher(TRUE, FALSE), Matcher(FALSE, FALSE)>>, DropTarget),
               Rule(0, <<>>, ReturnTarget),
               Rule(0, <<>>, AcceptTarget) >>,
            [Input |-> 0], [Input |-> 2])],
        [Input |-> <<TablenameNat, TablenameFilter>>])

ConcConfigs == {ConcTables}

\* The configurations a reconfiguration swaps between: the same table
\* names with other rules, entry points, underflows and priority order.
ReconfTables ==
    IPTables(
        [nat |-> Table(
            << Rule(0, <<>>, AcceptTarget),
               Rule(0, <<>>, DropTarget) >>,
            [Input |-> 1], [Input |-> 0]),
         filter |-> Table(
            << Rule(0, <<>>, ReturnTarget),
               Rule(0, <<Matcher(TRUE, FALSE)>>, AcceptTarget),
               Rule(0, <<>>, DropTarget) >>,
            [Input |-> 0], [Input |-> 1])],
        [Input |-> <<TablenameFilter, TablenameNat>>])

ReconfConfigs == {ConcTables, ReconfTables}

\* Reconfiguration: a brand-new engine state is installed in one step; the
\* IPTables value a call in flight received is not written to.
Reconfigure ==
    /\ ~Aborted
    /\ engine' \in ReconfConfigs \ {engine}
    /\ UNCHANGED calls

Init ==
    /\ engine \in Configs
    /\ calls = [c \in {1} |-> IdleFrame]

\* NumCallers network-stack contexts call Check on one engine.
InitConc ==
    /\ engine \in ConcConfigs
    /\ calls = [c \in 1..NumCallers |-> IdleFrame]

Next ==
    \E c \in DOMAIN calls :
        \/ \E hook \in Hook, pkt \in Packets : Check(c, hook, pkt)
        \/ CheckNextTable(c)
        \/ checkTable(c)
        \/ checkRuleMatch(c)
        \/ checkRuleAction(c)
        \/ checkTableUnderflow(c)
        \/ CheckReturn(c)

\* The steps of a call that has been made: the goroutine running Check is
\* scheduled until Check returns or the program panics.
Run ==
    \E c \in DOMAIN calls :
        \/ CheckNextTable(c)
        \/ checkTable(c)
        \/ checkRuleMatch(c)
        \/ checkRuleAction(c)
        \/ checkTableUnderflow(c)

InitReconf ==
    /\ engine \in ReconfConfigs
    /\ calls = [c \in {1} |-> IdleFrame]

NextReconf == Next \/ Reconfigure

Spec == Init /\ [][Next]_vars

SpecLive == Init /\ [][Next]_vars /\ WF_vars(Run)

SpecConc == InitConc /\ [][Next]_vars


SpecReconf == InitReconf /\ [][NextReconf]_vars

(***************************************************************************)
(* Properties.                                                             *)
(***************************************************************************)
Callers == DOMAIN calls

\* The table and the rule an entry of a frame's history is about.
EvTable(f, e) == MapGetTable(engine.Tables, PrioritiesOf(f.hook)[e.pos + 1])
EvRule(f, e) == RuleAt(EvTable(f, e), e.rule)

OfKind(f, kind) == SelectSeq(f.log, LAMBDA e : e.kind = kind)

\* C1: Drop is final. As soon as a table of priorities[hook] yields the
\* table verdict Drop, Check returns false, and nothing is evaluated after
\* that verdict: no later table is consulted.
C1_DropIsFinal ==
    \A c \in Callers :
        LET f == calls[c]
        IN  \A i \in 1..Len(f.log) :
                (f.log[i].kind = "tverdict" /\ f.log[i].v = TableDrop)
                    => /\ i = Len(f.log)
                       /\ f.pc = "done"
                       /\ f.result = FALSE

\* A table dropped the packet while later tables were still to consult.
C1_Witness ==
    \E c \in Callers :
        LET f == calls[c]
        IN  /\ f.pc = "done"
            /\ ~f.result
            /\ Len(f.log) > 0
            /\ f.log[Len(f.log)].kind = "tverdict"
            /\ f.log[Len(f.log)].v = TableDrop
            /\ f.log[Len(f.log)].pos + 1 < Len(PrioritiesOf(f.hook))

\* C2: when Check returns, the tables it consulted are those of
\* priorities[hook], in list order; it returns true exactly when every table
\* of the list was consulted and yielded Accept, and false exactly when some
\* table yielded Drop.
C2_CheckResult ==
    \A c \in Callers :
        LET f == calls[c]
            prio == PrioritiesOf(f.hook)
            tb == OfKind(f, "table")
            tv == OfKind(f, "tverdict")
        IN  f.pc = "done" =>
                /\ Len(tb) <= Len(prio)
                /\ \A j \in 1..Len(tb) : tb[j].pos = j - 1 /\ tb[j].v = prio[j]
                /\ Len(tv) = Len(tb)
                /\ \A j \in 1..Len(tv) : tv[j].pos = j - 1
                /\ f.result <=> /\ Len(tv) = Len(prio)
                                /\ \A j \in 1..Len(tv) : tv[j].v = TableAccept
                /\ ~f.result <=> \E j \in 1..Len(tv) : tv[j].v = TableDrop

\* Check returned true after consulting two tables or more.
C2_Witness ==
    \E c \in Callers :
        /\ calls[c].pc = "done"
        /\ calls[c].result
        /\ Len(OfKind(calls[c], "table")) >= 2

\* C3: fail-closed default. A table whose rules, from the entry index to the
\* last one, all yielded Continue yields Drop; a table yields Accept only
\* after the target of one of its rules, or its underflow target, yielded
\* Accept.
C3_FailClosed ==
    \A c \in Callers :
        LET f == calls[c]
        IN  \A i \in 1..Len(f.log) :
                LET e == f.log[i]
                    before == {j \in 1..(i - 1) : f.log[j].pos = e.pos}
                IN  e.kind = "tverdict" =>
                        /\ (\A j \in before :
                                f.log[j].kind \in {"rverdict", "underflow"}
                                    => f.log[j].v = RuleContinue)
                            => e.v = TableDrop
                        /\ e.v = TableAccept =>
                                \E j \in before :
                                    /\ f.log[j].kind \in {"target", "underflow"}
                                    /\ f.log[j].v = RuleAccept

\* A table was walked from its entry index to its last rule, every rule
\* yielded Continue, and the table yielded Drop.
C3_Witness ==
    \E c \in Callers :
        LET f == calls[c]
        IN  \E i \in 1..Len(f.log) :
                LET e == f.log[i]
                    rv == {j \in 1..(i - 1) :
                            f.log[j].pos = e.pos /\ f.log[j].kind = "rverdict"}
                IN  /\ e.kind = "tverdict"
                    /\ e.v = TableDrop
                    /\ Cardinality(rv) >= 2
                    /\ \A j \in rv : f.log[j].v = RuleContinue
                    /\ Cardinality(rv) = Len(EvTable(f, e).Rules)
                                            - MapGetInt(EvTable(f, e).BuiltinChains, f.hook)

\* C4: on the default configuration Check never aborts and returns true,
\* for every hook and every packet protocol.
C4_DefaultAccepts ==
    engine = DefaultTables =>
        \A c \in Callers :
            /\ calls[c].pc # "panic"
            /\ calls[c].pc = "done" => calls[c].result

\* Check returned true on the default configuration for Output, the hook
\* with the three tables.
C4_Witness ==
    /\ engine = DefaultTables
    /\ \E c \in Callers :
        /\ calls[c].pc = "done"
        /\ calls[c].result
        /\ calls[c].hook = Output
        /\ TransportProtocol(calls[c].pkt) = UDPProtocolNumber
        /\ Len(OfKind(calls[c], "tverdict")) = 3

\* C5: a matcher that reports hot-drop, whatever it reports for matches,
\* makes the rule yield Drop at once: the next entry is the rule's verdict
\* Drop, and no matcher and no target is called after it.
C5_HotDrop ==
    \A c \in Callers :
        LET f == calls[c]
        IN  \A i \in 1..Len(f.log) :
                LET e == f.log[i]
                IN  (/\ e.kind = "match"
                     /\ MatcherMatch(EvRule(f, e).Matchers[e.m + 1], f.hook, f.pkt).hotdrop)
                    => /\ i < Len(f.log)
                       /\ f.log[i + 1] = Ev("rverdict", e.pos, e.rule, 0, RuleDrop)
                       /\ \A j \in (i + 1)..Len(f.log) :
                                f.log[j].kind \notin {"match", "target", "underflow", "rule"}

\* The first of several matchers reported hot-drop together with a match,
\* in a rule whose target accepts.
C5_Witness ==
    \E c \in Callers :
        LET f == calls[c]
        IN  \E i \in 1..Len(f.log) :
                LET e == f.log[i]
                IN  /\ e.kind = "match"
                    /\ e.m = 0
                    /\ Len(EvRule(f, e).Matchers) >= 2
                    /\ EvRule(f, e).Matchers[1] = Matcher(TRUE, TRUE)
                    /\ EvRule(f, e).Target = AcceptTarget
                    /\ f.pc = "done"

\* C6: a rule whose header filter names a protocol other than the packet's
\* yields Continue with none of its matchers nor its target called, and the
\* traversal goes on with the rule at the next index.
C6_FilterSkips ==
    \A c \in Callers :
        LET f == calls[c]
        IN  \A i \in 1..Len(f.log) :
                LET e == f.log[i]
                IN  (/\ e.kind = "rule"
                     /\ EvRule(f, e).Filter.Protocol # 0
                     /\ EvRule(f, e).Filter.Protocol # TransportProtocol(f.pkt))
                    => /\ i < Len(f.log)
                       /\ f.log[i + 1] = Ev("rverdict", e.pos, e.rule, 0, RuleContinue)
                       /\ \A j \in 1..Len(f.log) :
                            (f.log[j].pos = e.pos /\ f.log[j].rule = e.rule)
                                => f.log[j].kind \notin {"match", "target"}
                       /\ IF i + 1 = Len(f.log)
                          THEN f.pc = "checkTable" /\ f.ruleIdx = e.rule + 1
                          ELSE IF e.rule + 1 < Len(EvTable(f, e).Rules)
                               THEN f.log[i + 2] = Ev("rule", e.pos, e.rule + 1, 0, "")
                               ELSE f.log[i + 2] = Ev("tverdict", e.pos, 0, 0, TableDrop)

\* A rule was skipped on a filter mismatch and the next rule was evaluated.
C6_Witness ==
    \E c \in Callers :
        LET f == calls[c]
        IN  \E i \in 1..Len(f.log) :
                LET e == f.log[i]
                IN  /\ e.kind = "rule"
                    /\ EvRule(f, e).Filter.Protocol = TCPProtocolNumber
                    /\ TransportProtocol(f.pkt) = UDPProtocolNumber
                    /\ i + 2 <= Len(f.log)
                    /\ f.log[i + 2] = Ev("rule", e.pos, e.rule + 1, 0, "")

\* C7: first decision wins. Once a rule yields Accept or Drop the table
\* verdict is that value and nothing more of that table is evaluated; the
\* filter table of the default configuration, [Accept, Accept, Accept,
\* Error] entered at index 0 for Input, yields Accept after rule 0 only.
C7_FirstDecisionWins ==
    \A c \in Callers :
        LET f == calls[c]
        IN  /\ \A i \in 1..Len(f.log) :
                LET e == f.log[i]
                IN  (e.kind = "rverdict" /\ e.v \in {RuleAccept, RuleDrop})
                    => /\ i < Len(f.log)
                       /\ f.log[i + 1] =
                            Ev("tverdict", e.pos, 0, 0,
                               IF e.v = RuleAccept THEN TableAccept ELSE TableDrop)
                       /\ \A j \in (i + 2)..Len(f.log) : f.log[j].pos # e.pos
            /\ (engine = DefaultTables /\ f.hook = Input /\ f.pc = "done")
                => LET ft == SelectSeq(f.log, LAMBDA e : e.pos = 1)
                   IN  ft = << Ev("table", 1, 0, 0, TablenameFilter),
                               Ev("rule", 1, 0, 0, ""),
                               Ev("target", 1, 0, 0, RuleAccept),
                               Ev("rverdict", 1, 0, 0, RuleAccept),
                               Ev("tverdict", 1, 0, 0, TableAccept) >>

\* A rule accepted while rules of a higher index were left in its table,
\* and Check went on to the end.
C7_Witness ==
    \E c \in Callers :
        LET f == calls[c]
        IN  /\ f.pc = "done"
            /\ \E i \in 1..Len(f.log) :
                /\ f.log[i].kind = "rverdict"
                /\ f.log[i].v = RuleAccept
                /\ f.log[i].rule + 1 < Len(EvTable(f, f.log[i]).Rules)

\* C8: for a hook whose priority list is empty or absent Check never
\* aborts and returns true with no table consulted, whatever the tables.
C8_NoTables ==
    \A c \in Callers :
        LET f == calls[c]
        IN  (/\ f.pc # "idle"
             /\ \/ f.hook \notin DOMAIN engine.Priorities
                \/ engine.Priorities[f.hook] = <<>>)
                => /\ f.pc \in {"Check", "done"}
                   /\ f.log = <<>>
                   /\ f.pc = "done" => f.result

\* Check returned true for Input on the empty filter table, with an empty
\* priority list for Input.
C8_Witness ==
    /\ engine = IPTables([filter |-> EmptyFilterTable], [Input |-> <<>>])
    /\ \E c \in Callers :
        /\ calls[c].pc = "done"
        /\ calls[c].hook = Input
        /\ calls[c].result


\* C9: concurrent Check calls on one engine return what sequential calls
\* return. Two calls on the same hook and packet that have returned have
\* the same result and made the same evaluations, whether they overlapped
\* other calls or ran alone.
C9_ConcurrentAsSequential ==
    \A c, d \in Callers :
        (/\ calls[c].pc = "done"
         /\ calls[d].pc = "done"
         /\ calls[c].hook = calls[d].hook
         /\ calls[c].pkt = calls[d].pkt)
            => /\ calls[c].result = calls[d].result
               /\ calls[c].log = calls[d].log

\* A call that overlapped another call and a call that ran alone, on the
\* same hook and packet through two tables, have both returned.
C9_Witness ==
    \E c, d \in Callers :
        /\ calls[c].pc = "done"
        /\ calls[d].pc = "done"
        /\ calls[c].hook = calls[d].hook
        /\ calls[c].pkt = calls[d].pkt
        /\ calls[c].overlapped
        /\ ~calls[d].overlapped
        /\ Len(OfKind(calls[c], "table")) >= 2

\* Some table listed in priorities[hook] has builtin_chains[hook] Unset.
UnsetAt(hook, k) ==
    LET table == MapGetTable(engine.Tables, PrioritiesOf(hook)[k])
    IN  hook \in DOMAIN table.BuiltinChains /\ table.BuiltinChains[hook] = HookUnset

\* C10 as stated: with a table listed in priorities[hook] whose
\* builtin_chains[hook] is Unset, Check(hook, pkt) never returns.
C10_UnsetNeverReturns ==
    \A c \in Callers :
        LET f == calls[c]
        IN  (/\ f.pc # "idle"
             /\ \E k \in 1..Len(PrioritiesOf(f.hook)) : UnsetAt(f.hook, k))
                => f.pc # "done"

\* C10, amended: with a table listed in priorities[hook] whose
\* builtin_chains[hook] is Unset, Check(hook, pkt) never returns true; it
\* returns false only when a table listed before that one yields Drop; and
\* once that table is consulted none of its rules is evaluated and the only
\* way on is the abort.
C10_UnsetAborts ==
    \A c \in Callers :
        LET f == calls[c]
            prio == PrioritiesOf(f.hook)
        IN  f.pc # "idle" =>
                \A k \in 1..Len(prio) :
                    UnsetAt(f.hook, k) =>
                        /\ ~(f.pc = "done" /\ f.result)
                        /\ f.pc = "done" =>
                                \E i \in 1..Len(f.log) :
                                    /\ f.log[i].kind = "tverdict"
                                    /\ f.log[i].v = TableDrop
                                    /\ f.log[i].pos < k - 1
                        /\ \A i \in 1..Len(f.log) :
                                (f.log[i].kind = "table" /\ f.log[i].pos = k - 1)
                                    => /\ i = Len(f.log)
                                       /\ \/ f.pc = "panic"
                                          \/ f.pc = "checkTable" /\ f.ruleIdx = HookUnset

\* Check aborted on a table with an Unset entry after an earlier table of
\* the list had accepted.
C10_Witness ==
    \E c \in Callers :
        LET f == calls[c]
        IN  /\ f.pc = "panic"
            /\ Len(f.log) > 0
            /\ f.log[Len(f.log)].kind = "table"
            /\ f.log[Len(f.log)].pos >= 1
            /\ UnsetAt(f.hook, f.log[Len(f.log)].pos + 1)

\* The table has, for some hook, an underflow rule that carries a matcher.
ConditionalUnderflow(table) ==
    \E hook \in DOMAIN table.Underflows :
        /\ table.Underflows[hook] >= 0
        /\ table.Underflows[hook] < Len(table.Rules)
        /\ RuleAt(table, table.Underflows[hook]).Matchers # <<>>

\* C11: a table whose underflow rule for some hook has a matcher is rejected
\* before any packet is checked: no Check call ever consults such a table.
C11_ConditionalUnderflowRejected ==
    \A c \in Callers :
        LET f == calls[c]
        IN  \A i \in 1..Len(f.log) :
                f.log[i].kind = "table" => ~ConditionalUnderflow(EvTable(f, f.log[i]))

\* C12: reaching the error target during traversal is fatal. Once the
\* target of an ErrorTarget rule is invoked the call aborts: nothing follows
\* in its history, no rule or table verdict, and Check does not return.
C12_ErrorTargetAborts ==
    \A c \in Callers :
        LET f == calls[c]
        IN  \A i \in 1..Len(f.log) :
                (f.log[i].kind = "target" /\ EvRule(f, f.log[i]).Target = ErrorTarget)
                    => /\ i = Len(f.log)
                       /\ f.pc = "panic"

\* The walk of a table reached its ErrorTarget rule after an earlier rule
\* had yielded Continue, and the call aborted.
C12_Witness ==
    \E c \in Callers :
        LET f == calls[c]
            n == Len(f.log)
        IN  /\ f.pc = "panic"
            /\ n > 0
            /\ f.log[n].kind = "target"
            /\ f.log[n].rule >= 1
            /\ EvRule(f, f.log[n]).Target = ErrorTarget

\* C13: on the default configuration the tables a call consults are, in
\* this order, nat then filter for Input, mangle, nat, filter for Output,
\* mangle then nat for Prerouting, and none for any other hook.
C13_DefaultTableOrder ==
    engine = DefaultTables =>
        \A c \in Callers :
            LET f == calls[c]
                expected == CASE f.hook = Input -> <<"nat", "filter">>
                              [] f.hook = Output -> <<"mangle", "nat", "filter">>
                              [] f.hook = Prerouting -> <<"mangle", "nat">>
                              [] OTHER -> <<>>
                tb == OfKind(f, "table")
            IN  f.pc # "idle" =>
                    /\ Len(tb) <= Len(expected)
                    /\ \A j \in 1..Len(tb) : tb[j].v = expected[j]
                    /\ f.pc = "done" => Len(tb) = Len(expected)

\* On the default configuration a call for Input returned after consulting
\* its two tables.
C13_Witness ==
    /\ engine = DefaultTables
    /\ \E c \in Callers :
        /\ calls[c].pc = "done"
        /\ calls[c].hook = Input
        /\ Len(OfKind(calls[c], "table")) = 2

\* The tables of the engine, and the hooks a table is wired to.
EngineTables == {engine.Tables[name] : name \in DOMAIN engine.Tables}
WiredHooks(table) == DOMAIN table.BuiltinChains

\* C14 as stated: in each table of the default configuration the rule at
\* the underflow index of every hook the table is wired to is the
\* error-sentinel rule.
C14_UnderflowIsErrorRule ==
    engine = DefaultTables =>
        \A table \in EngineTables :
            \A hook \in WiredHooks(table) :
                RuleAt(table, MapGetInt(table.Underflows, hook)).Target = ErrorTarget

\* C14, amended: in each table of the default configuration the rule at the
\* underflow index of every hook the table is wired to is an unconditional
\* AcceptTarget rule of the all-accept chain; the error-sentinel rule is the
\* last rule of the table, after every underflow index.
C14_UnderflowIsAcceptRule ==
    engine = DefaultTables =>
        \A table \in EngineTables :
            /\ Len(table.Rules) >= 1
            /\ table.Rules[Len(table.Rules)] = Rule(0, <<>>, ErrorTarget)
            /\ \A i \in 1..(Len(table.Rules) - 1) :
                    table.Rules[i] = Rule(0, <<>>, AcceptTarget)
            /\ \A hook \in WiredHooks(table) :
                    /\ hook \in DOMAIN table.Underflows
                    /\ table.Underflows[hook] >= 0
                    /\ table.Underflows[hook] < Len(table.Rules) - 1
                    /\ RuleAt(table, table.Underflows[hook]) = Rule(0, <<>>, AcceptTarget)

\* On the default configuration a call for Output is evaluating the rule of
\* mangle at the underflow index of Output.
C14_Witness ==
    /\ engine = DefaultTables
    /\ \E c \in Callers :
        /\ calls[c].pc = "checkRule"
        /\ calls[c].hook = Output
        /\ calls[c].tblIdx = 0
        /\ calls[c].ruleIdx = engine.Tables[TablenameMangle].Underflows[Output]

\* C15: in the engine states the construction helpers produce, a table name
\* is in priorities[hook] only if the table exists and its
\* builtin_chains[hook] has an entry that is a valid index into its rules.
C15_ListedTablesAreWired ==
    engine \in {DefaultTables, EmptyFilterConfig} =>
        \A hook \in DOMAIN engine.Priorities :
            \A k \in 1..Len(engine.Priorities[hook]) :
                LET name == engine.Priorities[hook][k]
                IN  /\ name \in DOMAIN engine.Tables
                    /\ hook \in DOMAIN engine.Tables[name].BuiltinChains
                    /\ engine.Tables[name].BuiltinChains[hook] # HookUnset
                    /\ engine.Tables[name].BuiltinChains[hook] >= 0
                    /\ engine.Tables[name].BuiltinChains[hook] < Len(engine.Tables[name].Rules)

\* On the default configuration a call for Output has entered filter, the
\* third table of the list, at the entry index of Output.
C15_Witness ==
    /\ engine = DefaultTables
    /\ \E c \in Callers :
        /\ calls[c].pc = "checkTable"
        /\ calls[c].hook = Output
        /\ calls[c].tblIdx = 2
        /\ calls[c].ruleIdx = engine.Tables[TablenameFilter].BuiltinChains[Output]

\* C16: on the default configuration, for every hook and every table listed
\* in priorities[hook], underflows[hook] indexes a rule with no header
\* filter and no matcher whose target yields Accept or Drop on every packet.
C16_DefaultUnderflowsUnconditional ==
    engine = DefaultTables =>
        \A hook \in DOMAIN engine.Priorities :
            \A k \in 1..Len(engine.Priorities[hook]) :
                LET table == MapGetTable(engine.Tables, engine.Priorities[hook][k])
                IN  /\ hook \in DOMAIN table.Underflows
                    /\ table.Underflows[hook] >= 0
                    /\ table.Underflows[hook] < Len(table.Rules)
                    /\ LET rule == RuleAt(table, table.Underflows[hook])
                       IN  /\ rule.Filter.Protocol = 0
                           /\ rule.Matchers = <<>>
                           /\ \A pkt \in Packets :
                                TargetAction(rule.Target, pkt) \in {RuleAccept, RuleDrop}

\* On the default configuration a call for Prerouting returned after its
\* two tables gave their verdicts.
C16_Witness ==
    /\ engine = DefaultTables
    /\ \E c \in Callers :
        /\ calls[c].pc = "done"
        /\ calls[c].hook = Prerouting
        /\ Len(OfKind(calls[c], "tverdict")) = 2

\* C17 as stated: the empty filter table has no rule, and for each of the
\* five hooks its builtin_chains and underflows entries are Unset.
C17_EmptyAllHooksUnset ==
    engine = EmptyFilterConfig =>
        LET table == engine.Tables[TablenameFilter]
        IN  /\ table.Rules = <<>>
            /\ \A hook \in Hook :
                /\ hook \in DOMAIN table.BuiltinChains
                /\ table.BuiltinChains[hook] = HookUnset
                /\ hook \in DOMAIN table.Underflows
                /\ table.Underflows[hook] = HookUnset

\* C17, amended: the empty filter table has no rule; its builtin_chains and
\* underflows entries are Unset for the three filter hooks Input, Forward
\* and Output, and it has no entry for Prerouting and Postrouting, for which
\* a lookup yields index 0.
C17_EmptyFilterHooksUnset ==
    engine = EmptyFilterConfig =>
        LET table == engine.Tables[TablenameFilter]
        IN  /\ table.Rules = <<>>
            /\ \A hook \in {Input, Forward, Output} :
                /\ hook \in DOMAIN table.BuiltinChains
                /\ table.BuiltinChains[hook] = HookUnset
                /\ hook \in DOMAIN table.Underflows
                /\ table.Underflows[hook] = HookUnset
            /\ \A hook \in {Prerouting, Postrouting} :
                /\ hook \notin DOMAIN table.BuiltinChains
                /\ hook \notin DOMAIN table.Underflows
                /\ MapGetInt(table.BuiltinChains, hook) = 0
                /\ MapGetInt(table.Underflows, hook) = 0

\* With the empty filter table installed and listed for no hook, a call for
\* Forward returned true.
C17_Witness ==
    /\ engine = EmptyFilterConfig
    /\ \E c \in Callers :
        /\ calls[c].pc = "done"
        /\ calls[c].hook = Forward
        /\ calls[c].result

\* C18: when a rule yields Return the walk stops and the target of the rule
\* at underflows[hook] is invoked directly, whatever the filter and the
\* matchers of that rule; the table yields Accept when that target yields
\* Accept and Drop when it yields Drop, and no other rule, matcher or target
\* of the table is evaluated afterwards.
C18_ReturnCallsUnderflow ==
    \A c \in Callers :
        LET f == calls[c]
        IN  \A i \in 1..Len(f.log) :
                LET e == f.log[i]
                    table == EvTable(f, e)
                    u == MapGetInt(table.Underflows, f.hook)
                IN  (e.kind = "rverdict" /\ e.v = RuleReturn) =>
                        IF i = Len(f.log)
                        THEN \/ f.pc = "underflow"
                             \/ f.pc = "panic" /\ (u < 0 \/ u >= Len(table.Rules))
                        ELSE /\ f.log[i + 1].kind = "underflow"
                             /\ f.log[i + 1].pos = e.pos
                             /\ f.log[i + 1].rule = u
                             /\ f.log[i + 1].v = RuleAccept =>
                                    /\ i + 2 <= Len(f.log)
                                    /\ f.log[i + 2] = Ev("tverdict", e.pos, 0, 0, TableAccept)
                             /\ f.log[i + 1].v = RuleDrop =>
                                    /\ i + 2 <= Len(f.log)
                                    /\ f.log[i + 2] = Ev("tverdict", e.pos, 0, 0, TableDrop)
                             /\ \A j \in (i + 2)..Len(f.log) :
                                    f.log[j].pos = e.pos => f.log[j].kind = "tverdict"

\* After a Return the target of an underflow rule that carries a matcher
\* which does not match was invoked, and the table yielded Accept.
C18_Witness ==
    \E c \in Callers :
        LET f == calls[c]
        IN  \E i \in 1..(Len(f.log) - 2) :
                /\ f.log[i].kind = "rverdict"
                /\ f.log[i].v = RuleReturn
                /\ f.log[i + 1].kind = "underflow"
                /\ EvRule(f, f.log[i + 1]).Matchers = <<Matcher(FALSE, FALSE)>>
                /\ f.log[i + 2] = Ev("tverdict", f.log[i].pos, 0, 0, TableAccept)

\* C19: when, after a Return, the underflow target yields anything other
\* than Accept or Drop, the call aborts: no table verdict follows and Check
\* does not return.
C19_UnderflowUndecidedAborts ==
    \A c \in Callers :
        LET f == calls[c]
        IN  \A i \in 1..Len(f.log) :
                (f.log[i].kind = "underflow" /\ f.log[i].v \notin {RuleAccept, RuleDrop})
                    => /\ i = Len(f.log)
                       /\ f.pc = "panic"

\* After a Return the underflow target yielded Continue and the call
\* aborted.
C19_Witness ==
    \E c \in Callers :
        LET f == calls[c]
            n == Len(f.log)
        IN  /\ f.pc = "panic"
            /\ n >= 2
            /\ f.log[n].kind = "underflow"
            /\ f.log[n].v = RuleContinue
            /\ f.log[n - 1].kind = "rverdict"
            /\ f.log[n - 1].v = RuleReturn

\* C20: the matchers of a rule are called in declared order, each one only
\* after the one before it; at the first matcher that reports no match and
\* no hot-drop the rule yields Continue and neither a later matcher nor the
\* target of the rule is invoked.
C20_MatchersShortCircuit ==
    \A c \in Callers :
        LET f == calls[c]
        IN  \A i \in 1..Len(f.log) :
                LET e == f.log[i]
                    r == MatcherMatch(EvRule(f, e).Matchers[e.m + 1], f.hook, f.pkt)
                IN  e.kind = "match" =>
                        /\ i > 1
                        /\ e.m < Len(EvRule(f, e).Matchers)
                        /\ IF e.m = 0
                           THEN f.log[i - 1] = Ev("rule", e.pos, e.rule, 0, "")
                           ELSE f.log[i - 1] = Ev("match", e.pos, e.rule, e.m - 1, "")
                        /\ (~r.matches /\ ~r.hotdrop) =>
                                /\ i < Len(f.log)
                                /\ f.log[i + 1] = Ev("rverdict", e.pos, e.rule, 0, RuleContinue)
                                /\ \A j \in (i + 1)..Len(f.log) :
                                        (f.log[j].pos = e.pos /\ f.log[j].rule = e.rule)
                                            => f.log[j].kind \notin {"match", "target"}

\* The second matcher of a rule was called after the first had matched, it
\* did not match, and the rule, whose target accepts, yielded Continue.
C20_Witness ==
    \E c \in Callers :
        LET f == calls[c]
        IN  \E i \in 2..(Len(f.log) - 1) :
                LET e == f.log[i]
                IN  /\ e.kind = "match"
                    /\ e.m = 1
                    /\ f.log[i - 1].kind = "match"
                    /\ EvRule(f, e).Matchers[2] = Matcher(FALSE, FALSE)
                    /\ EvRule(f, e).Target = AcceptTarget
                    /\ f.log[i + 1].v = RuleContinue

\* The header filter of the rule passes the frame's packet and every
\* matcher of the rule reports a match without hot-drop.
AllMatch(f, rule) ==
    /\ \/ rule.Filter.Protocol = 0
       \/ rule.Filter.Protocol = TransportProtocol(f.pkt)
    /\ \A k \in 1..Len(rule.Matchers) :
            LET r == MatcherMatch(rule.Matchers[k], f.hook, f.pkt)
            IN  r.matches /\ ~r.hotdrop

\* C21: the target of a rule is invoked if and only if the header filter
\* passes and every matcher matches without hot-drop, and the rule then
\* yields exactly the verdict the target produced.
C21_TargetIffAllMatch ==
    \A c \in Callers :
        LET f == calls[c]
        IN  \A i \in 1..Len(f.log) :
                LET e == f.log[i]
                    rule == EvRule(f, e)
                    n == Len(rule.Matchers)
                IN  /\ e.kind = "target" =>
                        /\ AllMatch(f, rule)
                        /\ e.v = TargetAction(rule.Target, f.pkt)
                        /\ IF e.v = "panic"
                           THEN i = Len(f.log) /\ f.pc = "panic"
                           ELSE /\ i < Len(f.log)
                                /\ f.log[i + 1] = Ev("rverdict", e.pos, e.rule, 0, e.v)
                    /\ e.kind = "rule" =>
                        IF AllMatch(f, rule)
                        THEN IF i + n + 1 <= Len(f.log)
                             THEN f.log[i + n + 1].kind = "target"
                                    /\ f.log[i + n + 1].pos = e.pos
                                    /\ f.log[i + n + 1].rule = e.rule
                             ELSE f.pc = "checkRule" /\ f.tblIdx = e.pos /\ f.ruleIdx = e.rule
                        ELSE \A j \in 1..Len(f.log) :
                                (f.log[j].pos = e.pos /\ f.log[j].rule = e.rule)
                                    => f.log[j].kind # "target"

\* The target of a rule with a header filter and two matchers was invoked
\* and the rule yielded the target's Drop.
C21_Witness ==
    \E c \in Callers :
        LET f == calls[c]
        IN  \E i \in 1..(Len(f.log) - 1) :
                /\ f.log[i].kind = "target"
                /\ EvRule(f, f.log[i]).Filter.Protocol = TCPProtocolNumber
                /\ Len(EvRule(f, f.log[i]).Matchers) = 2
                /\ f.log[i].v = RuleDrop
                /\ f.log[i + 1].kind = "rverdict"

\* C22: in one table traversal the rules evaluated are those at the entry
\* index builtin_chains[hook], then at each next index in turn: none below
\* the entry index, none skipped, none twice.
C22_ConsecutiveRules ==
    \A c \in Callers :
        LET f == calls[c]
        IN  \A i \in 1..Len(f.log) :
                LET e == f.log[i]
                    prevs == {j \in 1..(i - 1) :
                                /\ f.log[j].pos = e.pos
                                /\ f.log[j].kind \in {"table", "rule"}}
                    last == CHOOSE j \in prevs : \A k \in prevs : k <= j
                IN  e.kind = "rule" =>
                        /\ prevs # {}
                        /\ e.rule >= 0
                        /\ e.rule < Len(EvTable(f, e).Rules)
                        /\ IF f.log[last].kind = "table"
                           THEN e.rule = MapGetInt(EvTable(f, e).BuiltinChains, f.hook)
                           ELSE e.rule = f.log[last].rule + 1

\* A table entered at index 1 had its rules 1 and 2 evaluated in turn.
C22_Witness ==
    \E c \in Callers :
        LET f == calls[c]
        IN  \E i, j \in 1..Len(f.log) :
                /\ i < j
                /\ f.log[i].kind = "rule"
                /\ f.log[j].kind = "rule"
                /\ f.log[i].pos = f.log[j].pos
                /\ f.log[i].rule = 1
                /\ f.log[j].rule = 2
                /\ MapGetInt(EvTable(f, f.log[i]).BuiltinChains, f.hook) = 1

\* The positions in the frame's history of the events of a kind at a
\* position of the priority list.
EventsAt(f, kind, pos) ==
    {i \in 1..Len(f.log) : f.log[i].kind = kind /\ f.log[i].pos = pos}

\* A call has evaluated, per table of priorities[hook], each rule of the
\* table at most once and at most one underflow target.
WorkBounded(f) ==
    \A pos \in 0..Len(f.log) :
        /\ Cardinality(EventsAt(f, "table", pos)) <= 1
        /\ EventsAt(f, "table", pos) # {} => pos < Len(PrioritiesOf(f.hook))
        /\ Cardinality(EventsAt(f, "underflow", pos)) <= 1
        /\ \A i, j \in EventsAt(f, "rule", pos) :
                f.log[i].rule = f.log[j].rule => i = j
        /\ \A i \in EventsAt(f, "rule", pos) :
                /\ Cardinality(EventsAt(f, "rule", pos)) <= Len(EvTable(f, f.log[i]).Rules)
                /\ Cardinality(EventsAt(f, "target", pos)) <= Len(EvTable(f, f.log[i]).Rules)
        /\ \A kind \in {"rule", "target", "underflow", "rverdict", "tverdict"} :
                EventsAt(f, kind, pos) # {} => EventsAt(f, "table", pos) # {}

\* C23: every Check call terminates, with true, false or a fatal abort,
\* after evaluating at most, per table of priorities[hook], each rule of
\* the table once plus one underflow target.
C23_Terminates ==
    /\ [](\A c \in Callers : WorkBounded(calls[c]))
    /\ \A c \in {1} : (calls[c].pc = "Check") ~> (calls[c].pc \in {"done", "panic"})

\* A call has returned after evaluating both rules of a table and its
\* underflow target.
C23_Witness ==
    \E c \in Callers :
        LET f == calls[c]
        IN  /\ f.pc = "done"
            /\ \E pos \in 0..Len(f.log) :
                    /\ Cardinality(EventsAt(f, "rule", pos)) = 2
                    /\ Cardinality(EventsAt(f, "underflow", pos)) = 1
                    /\ Len(MapGetTable(engine.Tables, PrioritiesOf(f.hook)[pos + 1]).Rules) = 2

\* C24: Check leaves the engine state unchanged: no step of a call, whatever
\* its result, changes the tables (rules, builtin chains, underflows) or the
\* priorities.
C24_EngineUnchanged == [][engine' = engine]_vars

\* A call has returned false after consulting two tables.
C24_Witness ==
    \E c \in Callers :
        LET f == calls[c]
        IN  /\ f.pc = "done"
            /\ f.result = FALSE
            /\ EventsAt(f, "tverdict", 0) # {}
            /\ EventsAt(f, "tverdict", 1) # {}

\* The table at a position of the priority list of the hook in the IPTables
\* value the call received.
SnapshotTable(f, pos) ==
    MapGetTable(f.it.Tables, MapGetSlice(f.it.Priorities, f.hook)[pos + 1])

TableVerdictOf(v) == IF v = RuleAccept THEN TableAccept ELSE TableDrop

\* The event is a rule verdict or an underflow verdict that decides.
Decides(e) ==
    /\ e.kind \in {"rverdict", "underflow"}
    /\ e.v \in {RuleAccept, RuleDrop}

\* C26 as stated: the underflow rule is consulted both when a rule yields
\* Return and when the rules are exhausted without a decision, and its
\* result determines the table verdict.  Stated of the tables whose
\* underflow index for the hook is valid: every table verdict there follows
\* a deciding rule or the consulted underflow.
C26_UnderflowOnExhaustion ==
    \A c \in Callers :
        LET f == calls[c]
        IN  \A i \in 1..Len(f.log) :
                LET e == f.log[i]
                    u == MapGetInt(EvTable(f, e).Underflows, f.hook)
                IN  (e.kind = "tverdict" /\ u >= 0 /\ u < Len(EvTable(f, e).Rules)) =>
                        /\ i > 1
                        /\ Decides(f.log[i - 1])
                        /\ f.log[i - 1].pos = e.pos
                        /\ e.v = TableVerdictOf(f.log[i - 1].v)

\* C26 amended: the underflow rule is consulted only when a rule yields
\* Return, and its result then determines the table verdict; when the rules
\* are exhausted without a decision no underflow is consulted and the table
\* verdict is Drop.
C26_UnderflowOnReturnOnly ==
    \A c \in Callers :
        LET f == calls[c]
        IN  \A i \in 1..Len(f.log) :
                LET e == f.log[i]
                IN  /\ e.kind = "underflow" =>
                        /\ i > 1
                        /\ f.log[i - 1].kind = "rverdict"
                        /\ f.log[i - 1].v = RuleReturn
                        /\ f.log[i - 1].pos = e.pos
                        /\ e.rule = MapGetInt(EvTable(f, e).Underflows, f.hook)
                        /\ IF Decides(e)
                           THEN /\ i < Len(f.log)
                                /\ f.log[i + 1] =
                                    Ev("tverdict", e.pos, 0, 0, TableVerdictOf(e.v))
                           ELSE i = Len(f.log) /\ f.pc = "panic"
                    /\ e.kind = "tverdict" =>
                        /\ i > 1
                        /\ \/ Decides(f.log[i - 1]) /\ e.v = TableVerdictOf(f.log[i - 1].v)
                           \/ /\ \/ f.log[i - 1].kind = "table"
                                 \/ /\ f.log[i - 1].kind = "rverdict"
                                    /\ f.log[i - 1].v = RuleContinue
                              /\ e.v = TableDrop
                              /\ EventsAt(f, "underflow", e.pos) = {}

\* The rules of a table whose underflow for the hook is an Accept rule were
\* exhausted without a decision: the table verdict is Drop and no underflow
\* was consulted.
C26_Witness ==
    \E c \in Callers :
        LET f == calls[c]
        IN  \E i \in 2..Len(f.log) :
                LET e == f.log[i]
                    u == MapGetInt(EvTable(f, e).Underflows, f.hook)
                IN  /\ e.kind = "tverdict"
                    /\ e.v = TableDrop
                    /\ f.log[i - 1].kind = "rverdict"
                    /\ f.log[i - 1].v = RuleContinue
                    /\ u >= 0
                    /\ u < Len(EvTable(f, e).Rules)
                    /\ RuleAt(EvTable(f, e), u).Target = AcceptTarget
                    /\ EventsAt(f, "underflow", e.pos) = {}

\* The rules a call has evaluated, in order.
IsRuleEvent(e) == e.kind = "rule"

RuleEvents(f) == SelectSeq(f.log, IsRuleEvent)

\* C27: in the default configuration, for every hook and packet, each table
\* consulted evaluates exactly one rule, the one at builtin_chains[hook],
\* which accepts; the error-sentinel rule is never evaluated.  For Input:
\* nat rule 1, then filter rule 0, then Check returns true.
C27_DefaultOneRulePerTable ==
    engine = DefaultTables =>
        \A c \in Callers :
            LET f == calls[c]
            IN  /\ f.pc # "panic"
                /\ \A i \in 1..Len(f.log) :
                        LET e == f.log[i]
                        IN  /\ e.kind = "rule" =>
                                /\ e.rule = MapGetInt(EvTable(f, e).BuiltinChains, f.hook)
                                /\ EvRule(f, e).Target = AcceptTarget
                                /\ Cardinality(EventsAt(f, "rule", e.pos)) = 1
                            /\ e.kind = "rverdict" => e.v = RuleAccept
                            /\ e.kind = "tverdict" =>
                                /\ e.v = TableAccept
                                /\ Cardinality(EventsAt(f, "rule", e.pos)) = 1
                            /\ e.kind # "underflow"
                /\ (f.pc = "done" /\ f.hook = Input) =>
                        /\ RuleEvents(f) = << Ev("rule", 0, 1, 0, ""), Ev("rule", 1, 0, 0, "") >>
                        /\ f.result = TRUE

\* A call for Output on the default configuration has returned after
\* evaluating one rule in each of mangle, nat and filter.
C27_Witness ==
    /\ engine = DefaultTables
    /\ \E c \in Callers :
            LET f == calls[c]
            IN  /\ f.pc = "done"
                /\ f.hook = Output
                /\ RuleEvents(f) = << Ev("rule", 0, 1, 0, ""), Ev("rule", 1, 2, 0, ""),
                                      Ev("rule", 2, 2, 0, "") >>

\* C28: a table traversal either aborts fatally or yields exactly one of the
\* two table verdicts Accept and Drop, so the unknown-verdict fatal branch
\* of Check is never reached: no call aborts on a table verdict.
C28_TableVerdictKnown ==
    \A c \in Callers :
        LET f == calls[c]
        IN  /\ \A i \in 1..Len(f.log) :
                    f.log[i].kind = "tverdict" =>
                        /\ f.log[i].v \in {TableAccept, TableDrop}
                        /\ Cardinality(EventsAt(f, "tverdict", f.log[i].pos)) = 1
            /\ (f.pc = "panic" /\ f.log # <<>>) => f.log[Len(f.log)].kind # "tverdict"
            /\ \A pos \in 0..Len(f.log) :
                    (EventsAt(f, "table", pos) # {} /\ EventsAt(f, "tverdict", pos) = {}) =>
                        \/ f.pc = "panic"
                        \/ InFlight(f) /\ f.tblIdx = pos

\* A call aborted in the traversal of its second table, on an undecided
\* underflow, after its first table yielded Accept.
C28_Witness ==
    \E c \in Callers :
        LET f == calls[c]
        IN  /\ f.pc = "panic"
            /\ f.log # <<>>
            /\ f.log[Len(f.log)].kind = "underflow"
            /\ f.log[Len(f.log)].pos = 1
            /\ \E i \in 1..Len(f.log) : f.log[i] = Ev("tverdict", 0, 0, 0, TableAccept)

\* C29: the walk for a hook is not confined to the hook's chain: when a rule
\* at or past the index underflows[hook] yields Continue, the next rule of
\* the table is evaluated, up to the last rule of the table, and the first
\* rule there to yield Accept or Drop decides the table verdict.
C29_WalkLeavesChain ==
    \A c \in Callers :
        LET f == calls[c]
        IN  \A i \in 1..Len(f.log) :
                LET e == f.log[i]
                    table == EvTable(f, e)
                    u == MapGetInt(table.Underflows, f.hook)
                IN  (e.kind = "rverdict" /\ u >= 0 /\ e.rule >= u) =>
                        /\ (e.v = RuleContinue /\ e.rule + 1 < Len(table.Rules)) =>
                                IF i < Len(f.log)
                                THEN f.log[i + 1] = Ev("rule", e.pos, e.rule + 1, 0, "")
                                ELSE f.pc = "checkTable" /\ f.ruleIdx = e.rule + 1
                        /\ (e.v \in {RuleAccept, RuleDrop} /\ e.rule > u) =>
                                /\ i < Len(f.log)
                                /\ f.log[i + 1] = Ev("tverdict", e.pos, 0, 0, TableVerdictOf(e.v))

\* In a nat table of five rules wired as the default one, the Input rule at
\* underflows[Input] = 1 yielded Continue and rule 2, of the Output chain,
\* accepted the packet for Input.
C29_Witness ==
    \E c \in Callers :
        LET f == calls[c]
        IN  /\ f.hook = Input
            /\ \E i \in 1..Len(f.log) :
                    /\ i + 4 <= Len(f.log)
                    /\ f.log[i] = Ev("rverdict", 0, 1, 0, RuleContinue)
                    /\ EvTable(f, f.log[i]).Underflows = DefaultTables.Tables.nat.Underflows
                    /\ Len(EvTable(f, f.log[i]).Rules) = 5
                    /\ f.log[i + 1] = Ev("rule", 0, 2, 0, "")
                    /\ f.log[i + 3] = Ev("rverdict", 0, 2, 0, RuleAccept)
                    /\ f.log[i + 4] = Ev("tverdict", 0, 0, 0, TableAccept)

\* C30: when a table is listed in priorities[hook] but its builtin_chains
\* has no entry at all for the hook, traversal does not abort: it starts at
\* rule index 0 and yields the verdict of that walk (Drop at once for a
\* table without rules).
C30_MissingEntryStartsAtZero ==
    \A c \in Callers :
        LET f == calls[c]
        IN  \A i \in 1..Len(f.log) :
                LET e == f.log[i]
                    table == EvTable(f, e)
                IN  (e.kind = "table" /\ f.hook \notin DOMAIN table.BuiltinChains) =>
                        IF i = Len(f.log)
                        THEN f.pc = "checkTable" /\ f.ruleIdx = 0
                        ELSE IF table.Rules = <<>>
                             THEN f.log[i + 1] = Ev("tverdict", e.pos, 0, 0, TableDrop)
                             ELSE f.log[i + 1] = Ev("rule", e.pos, 0, 0, "")

\* The default mangle table, listed for Input, was walked from its
\* Prerouting rule 0, which accepted, and Check returned true.
C30_Witness ==
    \E c \in Callers :
        LET f == calls[c]
        IN  /\ f.pc = "done"
            /\ f.result = TRUE
            /\ f.hook = Input
            /\ Len(f.log) >= 2
            /\ f.log[1] = Ev("table", 0, 0, 0, TablenameMangle)
            /\ engine.Tables[TablenameMangle] = DefaultTables.Tables[TablenameMangle]
            /\ f.log[2] = Ev("rule", 0, 0, 0, "")

====
